---- MODULE Spec2Model ----
(***************************************************************************)
(* cname-serve: a DNS server that answers a configured set of names with   *)
(* CNAME (or, with finalize, resolved A) records and delegates everything  *)
(* else to a fallback server.  The model follows src/main.go: run builds   *)
(* the zone slice and the dispatch table, then starts a UDP and a TCP      *)
(* listener in an errgroup and waits for them.                             *)
(*                                                                         *)
(* A domain name is a record [labels, fq]: its labels, leftmost first, and *)
(* whether the string ends in a dot.  "ha.d14.place." is                   *)
(* [labels |-> <<"ha","d14","place">>, fq |-> TRUE], "." is                *)
(* [labels |-> <<>>, fq |-> TRUE] and the empty string is                  *)
(* [labels |-> <<>>, fq |-> FALSE].  Labels are lower-case ASCII.          *)
(***************************************************************************)
EXTENDS Integers, Sequences, FiniteSets, TLC

VARIABLES
    cfg,        \* *Config returned by ParseConfigFile (never written by run)
    authKey,    \* os.Getenv("TS_AUTHKEY")
    zones,      \* the []newdns.Zone slice built by run
    dnsMux,     \* dns.ServeMux: registered pattern -> handler
    pc,         \* where run is
    rc,         \* the process exit code, -1 while running
    waitErr,    \* the error errg.Wait returned to run
    sigint,     \* the interrupt signal has cancelled main's context
    ctxDone,    \* the errgroup's derived context is cancelled
    errg,       \* errgroup.Group: wg, its WaitGroup counter; err, its error
    reported,   \* history: the non-nil errors tasks returned, in order
    task,       \* listener goroutine of each transport
    watcher,    \* ctxWaitShutdown goroutine of each transport
    srv,        \* dns.Server of each transport
    tss,        \* tsnet.Server
    last,       \* outcome of the query being answered, NoQuery between queries
    failed      \* history: logDNSEvent has logged the error of a query

vars == <<cfg, authKey, zones, dnsMux, pc, rc, waitErr, sigint, ctxDone, errg,
          reported, task, watcher, srv, tss, last, failed>>

cfgVars == <<cfg, authKey>>
tableVars == <<zones, dnsMux>>
groupVars == <<ctxDone, errg, reported>>
queryVars == <<last, failed>>

----------------------------------------------------------------------------
(* Bounds of the model *)

MaxZones == 2      \* zones in one configuration
MaxIPs == 2        \* addresses returned by one resolver call

(* Program constants *)

DefaultExpire == 5     \* seconds
DNSPort == 53

----------------------------------------------------------------------------
(* Domain names *)

Fq(ls) == [labels |-> ls, fq |-> TRUE]
Rel(ls) == [labels |-> ls, fq |-> FALSE]

Root == Fq(<<>>)
Empty == Rel(<<>>)

\* newdns.NormalizeDomain(name, true, true, false): trailing dots are trimmed
\* and one root dot is added.
NormalizeDomain(name) == [labels |-> name.labels, fq |-> TRUE]

IsSuffix(s, t) ==
    /\ Len(s) <= Len(t)
    /\ SubSeq(t, Len(t) - Len(s) + 1, Len(t)) = s

\* newdns.InZone(zone, name): name is zone or lies below it, on a label boundary.
InZone(zone, name) ==
    /\ zone.fq
    /\ name.fq
    /\ IsSuffix(zone.labels, name.labels)

\* newdns.TrimZone(zone, name): the labels of name left of the zone, joined
\* with dots and without a trailing dot.
TrimZone(zone, name) ==
    IF InZone(zone, name)
    THEN Rel(SubSeq(name.labels, 1, Len(name.labels) - Len(zone.labels)))
    ELSE name

joinDomain(name, zone) ==
    IF zone = Root THEN name
    ELSE IF name = Empty THEN zone
    ELSE [labels |-> name.labels \o zone.labels, fq |-> zone.fq]

----------------------------------------------------------------------------
(* Addresses *)

\* A net.IP is a 4-byte or a 16-byte slice; a 16-byte slice holds an IPv6
\* address or an IPv4 address in its mapped form.
IPs == { [bytes |-> 4,  v4 |-> TRUE,  host |-> 1],
         [bytes |-> 16, v4 |-> TRUE,  host |-> 2],
         [bytes |-> 16, v4 |-> FALSE, host |-> 3] }

\* net.IP.String: dotted decimal for an IPv4 address in either form, colon
\* hexadecimal otherwise.
IPString(ip) ==
    [form |-> IF ip.v4 THEN "dotted" ELSE "colon", host |-> ip.host]

ipsToDNSRecordsReversed(ips) ==
    [i \in 1..Len(ips) |-> [Address |-> IPString(ips[Len(ips) + 1 - i])]]

ipsToDNSRecords(ips) ==
    [i \in 1..Len(ips) |-> [Address |-> IPString(ips[i])]]

----------------------------------------------------------------------------
(* Configuration (config.go) and the inputs of the model *)

Transports == {"udp", "tcp"}

DefaultAddr == ":53"

ZoneKeys == { Rel(<<"d14", "place">>), Fq(<<"place">>), Root }

Labels == { Empty, Rel(<<"ha">>), Rel(<<"x", "ha">>) }

\* The target configured for a label of a zone: one host per label, one
\* tailnet per zone, written with or without the final dot.
TargetOf(key, label) ==
    [labels |-> << CASE label = Empty -> "apex"
                     [] label = Rel(<<"ha">>) -> "bridget"
                     [] OTHER -> "web",
                   CASE key = Root -> "root-net"
                     [] key = Fq(<<"place">>) -> "place-net"
                     [] OTHER -> "skate-gopher",
                   "ts", "net" >>,
     fq |-> label # Rel(<<"ha">>)]

\* ZoneConfig: map[string]string
ZoneConfigs(key) ==
    { [l \in ls |-> TargetOf(key, l)] :
        ls \in SUBSET Labels }

\* Config.Zones: map[string]ZoneConfig
ZoneMaps ==
    UNION { { zm \in [ks -> UNION { ZoneConfigs(k) : k \in ks }] :
                \A k \in ks : zm[k] \in ZoneConfigs(k) } :
              ks \in { x \in SUBSET ZoneKeys : Cardinality(x) <= MaxZones } }

Config(zm, expire, finalize, fallback, tsEnable, addr) ==
    [Addr |-> addr, Expire |-> expire, FallbackDNS |-> fallback,
     Finalize |-> finalize, Tailscale |-> [Enable |-> tsEnable], Zones |-> zm]

\* Config.Expire in seconds: the default, or a value set in the file
Expires == { DefaultExpire, 30 }

QueryNames ==
    { Root, Fq(<<"place">>), Fq(<<"d14", "place">>),
      Fq(<<"ha", "d14", "place">>), Fq(<<"x", "ha", "d14", "place">>),
      Fq(<<"google", "com">>) }

SeqsUpTo(S, n) == UNION { [1..k -> S] : k \in 0..n }

\* What net.DefaultResolver.LookupIP can return: addresses, or an error.
LookupResults ==
    { [ok |-> TRUE, ips |-> s, cause |-> ""] : s \in SeqsUpTo(IPs, MaxIPs) }
    \cup { [ok |-> FALSE, ips |-> <<>>, cause |-> c] :
             c \in {"no such host", "i/o timeout"} }

NoLookup == [ok |-> TRUE, ips |-> <<>>, cause |-> "not called"]

----------------------------------------------------------------------------
(* run: the zone slice *)

Perms(S) ==
    { f \in [1..Cardinality(S) -> S] : \A i, j \in DOMAIN f : f[i] = f[j] => i = j }

NewZoneKeepsTarget(key, zcfg) ==
    [Name |-> NormalizeDomain(key), targets |-> zcfg]

\* One iteration of the loop over cfg.Zones: the zone's normalized name and
\* the targets map its Handler closure captures.
NewZone(key, zcfg) ==
    [Name |-> NormalizeDomain(key),
     targets |-> [l \in DOMAIN zcfg |-> NormalizeDomain(zcfg[l])]]

\* The slices the loop can build: Go ranges over a map in any order.
ZoneSlices(zm) ==
    { [i \in DOMAIN order |-> NewZone(order[i], zm[order[i]])] :
        order \in Perms(DOMAIN zm) }

NoErr == [msg |-> "", cause |-> ""]

ZoneHandlerPrefixMatch(z, name, finalize, expire, res) ==
    LET known == { l \in DOMAIN z.targets : IsSuffix(l.labels, name.labels) }
        l == CHOOSE x \in known : TRUE
    IN  IF known = {}
        THEN [sets |-> <<>>, err |-> NoErr, lookups |-> <<>>]
        ELSE [sets |-> << [Name |-> joinDomain(name, z.Name), Type |-> "CNAME",
                           Records |-> << [Address |-> z.targets[l]] >>,
                           TTL |-> expire] >>,
              err |-> NoErr, lookups |-> <<>>]

\* Zone.Handler: the closure of a zone. res is what LookupIP returns if the
\* closure calls it; lookups lists the targets it was called on.
ZoneHandler(z, name, finalize, expire, res) ==
    IF name \notin DOMAIN z.targets
    THEN [sets |-> <<>>, err |-> NoErr, lookups |-> <<>>]
    ELSE LET target == z.targets[name] IN
         IF finalize
         THEN IF ~res.ok
              THEN [sets |-> <<>>,
                    err |-> [msg |-> "failed to resolve target", cause |-> res.cause],
                    lookups |-> <<target>>]
              ELSE [sets |-> << [Name |-> joinDomain(name, z.Name), Type |-> "A",
                                 Records |-> ipsToDNSRecords(res.ips),
                                 TTL |-> expire] >>,
                    err |-> NoErr, lookups |-> <<target>>]
         ELSE [sets |-> << [Name |-> joinDomain(name, z.Name), Type |-> "CNAME",
                            Records |-> << [Address |-> target] >>,
                            TTL |-> expire] >>,
               err |-> NoErr, lookups |-> <<>>]

----------------------------------------------------------------------------
(* run: the dispatch table *)

\* dns.ServeMux.Handle: the handler of a pattern replaces any earlier one.
MuxHandle(mux, pattern, h) ==
    [p \in DOMAIN mux \cup {pattern} |-> IF p = pattern THEN h ELSE mux[p]]

HandleNoZone(mux, zs, i) == mux

RECURSIVE HandleZones(_, _, _)
HandleZones(mux, zs, i) ==
    IF i > Len(zs) THEN mux
    ELSE HandleZones(MuxHandle(mux, zs[i].Name, "dnsHandler"), zs, i + 1)

NewMuxWithoutFallback(zs, fallback) == HandleZones(<<>>, zs, 1)

NewMuxAlwaysFallback(zs, fallback) ==
    MuxHandle(HandleZones(<<>>, zs, 1), Root, "proxy")

\* dns.NewServeMux, one Handle per zone, then Handle(".") for the fallback
\* when cfg.FallbackDNS is set.
NewMux(zs, fallback) ==
    LET m == HandleZones(<<>>, zs, 1) IN
    IF fallback # "" THEN MuxHandle(m, Root, "proxy") ELSE m

\* dns.ServeMux.match: the handler of the longest registered suffix of the
\* query name, the root pattern last; "none" stands for no handler.
MuxMatch(mux, q) ==
    LET hits == { p \in DOMAIN mux : IsSuffix(p.labels, q.labels) } IN
    IF hits = {} THEN "none"
    ELSE mux[CHOOSE p \in hits : \A o \in hits : Len(o.labels) <= Len(p.labels)]

\* newdns.Config.Handler: the index in the slice of the first zone that
\* contains name, 0 for nil.
ConfigHandler(zs, name) ==
    LET in == { i \in 1..Len(zs) : InZone(zs[i].Name, name) } IN
    IF in = {} THEN 0 ELSE CHOOSE i \in in : \A j \in in : i <= j

NoZone == [Name |-> Empty, targets |-> <<>>]

Outcome(q, net, via, zone, label, res, r, forwarded, rcode) ==
    [q |-> q, net |-> net, via |-> via, zone |-> zone, label |-> label,
     res |-> res, sets |-> r.sets, err |-> r.err, lookups |-> r.lookups,
     forwarded |-> forwarded, rcode |-> rcode]

NotHandled == [sets |-> <<>>, err |-> NoErr, lookups |-> <<>>]

NoQuery == Outcome(Empty, "", "", NoZone, Empty, NoLookup, NotHandled, Empty, "")

\* One query of type A for the name q, from the mux to the reply.
\*   via "proxy":      newdns.Proxy forwards the request to cfg.FallbackDNS
\*   via "none":       the mux has no handler: dns.HandleFailed refuses
\*   via "dnsHandler": the newdns server asks Config.Handler for the zone and
\*                     the zone's Handler for the sets of the trimmed name; a
\*                     Handler error is answered with a server failure.
\* The outcome records its inputs (q, net, and res, the result of the
\* resolver call if one is made) beside what the handlers did.
ServeDNS(mux, zs, finalize, expire, q, net, res) ==
    LET h == MuxMatch(mux, q)
        name == NormalizeDomain(q)
        ix == ConfigHandler(zs, name)
    IN
    CASE h = "proxy" ->
           Outcome(q, net, "proxy", NoZone, Empty, res, NotHandled, q, "relayed")
      [] h = "none" ->
           Outcome(q, net, "none", NoZone, Empty, res, NotHandled, Empty, "REFUSED")
      [] OTHER ->
           IF ix = 0
           THEN Outcome(q, net, "dnsHandler", NoZone, Empty, res, NotHandled,
                        Empty, "REFUSED")
           ELSE LET label == TrimZone(zs[ix].Name, name)
                    r == ZoneHandler(zs[ix], label, finalize, expire, res)
                IN  Outcome(q, net, "dnsHandler", zs[ix], label, res, r, Empty,
                            IF r.err # NoErr THEN "SERVFAIL" ELSE "answered")

\* Whether answering q calls the resolver: its result is an input of the
\* query only then.
CallsResolver(mux, zs, finalize, q) ==
    ServeDNS(mux, zs, finalize, DefaultExpire, q, "", NoLookup).lookups # <<>>

----------------------------------------------------------------------------
(* run: the listeners *)

\* A netip.Addr of the tailnet: its family and which address it is
TsAddr(fam, id) == [fam |-> fam, id |-> id]

NoAddrPort == [ip |-> TsAddr(0, 0), port |-> 0]

\* dns.Server: Addr, the socket it was given (conn), started, and whether
\* its shutdown channel is closed
NoServer ==
    [started |-> FALSE, shutdown |-> "open", bound |-> "", addr |-> "",
     conn |-> NoAddrPort]

NoSession == [state |-> "none", closes |-> 0, ips |-> <<>>, firstV4 |-> 0]

\* tsStatus.TailscaleIPs
TailscaleIPLists ==
    { <<>>,
      << TsAddr(6, 1) >>,
      << TsAddr(6, 1), TsAddr(4, 2), TsAddr(4, 3) >>,
      << TsAddr(4, 3), TsAddr(6, 1), TsAddr(4, 2) >> }

IndexFuncAny(ips) == IF Len(ips) = 0 THEN 0 ELSE 1

\* slices.IndexFunc(ips, netip.Addr.Is4), 0 for -1
IndexFuncIs4(ips) ==
    LET v4 == { i \in 1..Len(ips) : ips[i].fam = 4 } IN
    IF v4 = {} THEN 0 ELSE CHOOSE i \in v4 : \A j \in v4 : i <= j

TaskErr(t, what) == [msg |-> what, cause |-> t]

\* errgroup.Group.Go: wg.Add(1) and start the goroutine
GroupGo(g, n) == [g EXCEPT !.wg = g.wg + n]

\* The end of a goroutine of the group: wg.Done, and the first non-nil error
\* is kept (errOnce).
GroupDone(g, e) ==
    [wg |-> g.wg - 1, err |-> IF e # NoErr /\ g.err = NoErr THEN e ELSE g.err]

GroupIdleOnCancel(g, done) == g.wg = 0 \/ done

\* errgroup.Group.Wait returns once the counter is zero
GroupIdle(g, done) == g.wg = 0

ExitCodeIgnoresError(err) == 0

\* run's result from the error of errg.Wait
ExitCode(err) == IF err # NoErr THEN 1 ELSE 0

CloseSessionNever(s) == s

\* tss.Close(), deferred once the tsnet.Server has been made
CloseSession(s) ==
    IF s.state = "none" THEN s
    ELSE [s EXCEPT !.state = "closed", !.closes = s.closes + 1]

\* A task of the group returns e.
Return(t, e) ==
    /\ task' = [task EXCEPT ![t] = "done"]
    /\ errg' = GroupDone(errg, e)
    /\ reported' = IF e # NoErr THEN Append(reported, e) ELSE reported
    /\ ctxDone' = (ctxDone \/ e # NoErr)

NoZonesUnchecked(zs) == FALSE

\* len(zones) == 0
NoZones(zs) == Len(zs) = 0

TailscaleMisconfiguredKeyOnly(key, addr) == key = ""

\* The two checks before the tsnet.Server is made: TS_AUTHKEY is empty, or
\* cfg.Addr is not ":53".
TailscaleMisconfigured(key, addr) == key = "" \/ addr # DefaultAddr

\* run up to the first call that blocks: the zone slice, the check for no
\* zones, the mux, the errgroup, then the Tailscale checks and tss.Up or the
\* two errg.Go of the plain listeners.
Setup ==
    /\ pc = "start"
    /\ \E zs \in ZoneSlices(cfg.Zones) :
        /\ zones' = zs
        /\ IF NoZones(zs)
           THEN /\ pc' = "exited"
                /\ rc' = 1
                /\ UNCHANGED <<dnsMux, tss, task, errg>>
           ELSE /\ dnsMux' = NewMux(zs, cfg.FallbackDNS)
                /\ IF cfg.Tailscale.Enable
                   THEN IF TailscaleMisconfigured(authKey, cfg.Addr)
                        THEN /\ pc' = "returned"
                             /\ rc' = 1
                             /\ UNCHANGED <<tss, task, errg>>
                        ELSE /\ pc' = "tsUp"
                             /\ tss' = [NoSession EXCEPT !.state = "starting"]
                             /\ UNCHANGED <<rc, task, errg>>
                   ELSE /\ pc' = "wait"
                        /\ task' = [t \in Transports |-> "spawned"]
                        /\ errg' = GroupGo(errg, 2)
                        /\ UNCHANGED <<rc, tss>>
    /\ UNCHANGED <<cfgVars, waitErr, sigint, ctxDone, reported, watcher, srv, queryVars>>

\* tss.Up(ctx) returns: an error, a status without an IPv4 address, or a
\* status with one, after which the two listener tasks are started.
TsUp ==
    /\ pc = "tsUp"
    /\ \/ /\ pc' = "returned"
          /\ rc' = 1
          /\ tss' = CloseSession(tss)
          /\ UNCHANGED <<task, errg>>
       \/ \E ips \in TailscaleIPLists :
            IF IndexFuncIs4(ips) = 0
            THEN /\ pc' = "returned"
                 /\ rc' = 1
                 /\ tss' = CloseSession([tss EXCEPT !.state = "up", !.ips = ips])
                 /\ UNCHANGED <<task, errg>>
            ELSE /\ pc' = "wait"
                 /\ tss' = [tss EXCEPT !.state = "up", !.ips = ips,
                                       !.firstV4 = IndexFuncIs4(ips)]
                 /\ task' = [t \in Transports |-> "spawned"]
                 /\ errg' = GroupGo(errg, 2)
                 /\ UNCHANGED rc
    /\ UNCHANGED <<cfgVars, tableVars, waitErr, sigint, ctxDone, reported,
                   watcher, srv, queryVars>>

\* A listener task up to its call of ListenAndServe or ActivateAndServe.
\* Through Tailscale it binds first and returns the error of a failed bind.
TaskStart(t) ==
    /\ task[t] = "spawned"
    /\ IF cfg.Tailscale.Enable
       THEN \/ /\ srv' = [srv EXCEPT ![t] =
                            [NoServer EXCEPT
                               !.bound = "tsnet",
                               !.conn = [ip |-> tss.ips[tss.firstV4],
                                         port |-> DNSPort]]]
               /\ watcher' = [watcher EXCEPT ![t] = "waiting"]
               /\ task' = [task EXCEPT ![t] = "listen"]
               /\ errg' = GroupGo(errg, 1)
               /\ UNCHANGED <<reported, ctxDone>>
            \/ /\ Return(t, TaskErr(t, "failed to listen on Tailscale"))
               /\ UNCHANGED <<srv, watcher>>
       ELSE /\ srv' = [srv EXCEPT ![t] = [NoServer EXCEPT !.addr = cfg.Addr]]
            /\ watcher' = [watcher EXCEPT ![t] = "waiting"]
            /\ task' = [task EXCEPT ![t] = "listen"]
            /\ errg' = GroupGo(errg, 1)
            /\ UNCHANGED <<reported, ctxDone>>
    /\ UNCHANGED <<cfgVars, tableVars, pc, rc, waitErr, sigint, tss, queryVars>>

\* dns.Server.ListenAndServe binds and marks the server started, or returns
\* the bind error; ActivateAndServe marks it started on the given socket.
TaskListen(t) ==
    /\ task[t] = "listen"
    /\ \/ /\ srv' = [srv EXCEPT ![t].started = TRUE,
                                ![t].bound = IF cfg.Tailscale.Enable
                                             THEN "tsnet" ELSE "local"]
          /\ task' = [task EXCEPT ![t] = "serving"]
          /\ UNCHANGED groupVars
       \/ /\ ~cfg.Tailscale.Enable
          /\ Return(t, TaskErr(t, "listen"))
          /\ UNCHANGED srv
    /\ UNCHANGED <<cfgVars, tableVars, pc, rc, waitErr, sigint, watcher, tss, queryVars>>

\* The serve loop sees the server stopped and returns nil.
TaskServeStop(t) ==
    /\ task[t] = "serving"
    /\ ~srv[t].started
    /\ srv' = [srv EXCEPT ![t].shutdown = "closed"]
    /\ Return(t, NoErr)
    /\ UNCHANGED <<cfgVars, tableVars, pc, rc, waitErr, sigint, watcher, tss, queryVars>>

\* The serve loop of a started server returns a read or accept error.
TaskServeFail(t) ==
    /\ task[t] = "serving"
    /\ srv[t].started
    /\ srv' = [srv EXCEPT ![t].shutdown = "closed"]
    /\ Return(t, TaskErr(t, "serve"))
    /\ UNCHANGED <<cfgVars, tableVars, pc, rc, waitErr, sigint, watcher, tss, queryVars>>

\* dns.Server.Shutdown: an error and no effect unless the server is started
Shutdown(s) ==
    IF ~s.started
    THEN [ok |-> FALSE, srv |-> s]
    ELSE [ok |-> TRUE, srv |-> [s EXCEPT !.started = FALSE]]

\* ctxWaitShutdown: <-ctx.Done(), then Shutdown up to where it waits for the
\* serve loop; a failed Shutdown is logged and the watcher returns.
WatcherShutdown(t) ==
    /\ watcher[t] = "waiting"
    /\ ctxDone
    /\ LET r == Shutdown(srv[t]) IN
        /\ srv' = [srv EXCEPT ![t] = r.srv]
        /\ IF r.ok
           THEN /\ watcher' = [watcher EXCEPT ![t] = "stopping"]
                /\ UNCHANGED errg
           ELSE /\ watcher' = [watcher EXCEPT ![t] = "done"]
                /\ errg' = GroupDone(errg, NoErr)
    /\ UNCHANGED <<cfgVars, tableVars, pc, rc, waitErr, sigint, ctxDone, reported,
                   task, tss, queryVars>>

\* Shutdown returns once the serve loop has ended; the watcher returns nil.
WatcherReturn(t) ==
    /\ watcher[t] = "stopping"
    /\ srv[t].shutdown = "closed"
    /\ watcher' = [watcher EXCEPT ![t] = "done"]
    /\ errg' = GroupDone(errg, NoErr)
    /\ UNCHANGED <<cfgVars, tableVars, pc, rc, waitErr, sigint, ctxDone, reported,
                   task, srv, tss, queryVars>>

\* errg.Wait returns; run logs its error and returns, closing the session.
Wait ==
    /\ pc = "wait"
    /\ GroupIdle(errg, ctxDone)
    /\ pc' = "returned"
    /\ waitErr' = errg.err
    /\ rc' = ExitCode(errg.err)
    /\ ctxDone' = TRUE
    /\ tss' = CloseSession(tss)
    /\ UNCHANGED <<cfgVars, tableVars, sigint, errg, reported, task, watcher, srv, queryVars>>

\* The interrupt signal cancels main's context and the contexts derived from it.
Interrupt ==
    /\ ~sigint
    /\ pc \notin {"returned", "exited"}
    /\ sigint' = TRUE
    /\ ctxDone' = TRUE
    /\ UNCHANGED <<cfgVars, tableVars, pc, rc, waitErr, errg, reported, task,
                   watcher, srv, tss, queryVars>>

logDNSEventFatal(p, err) == IF err # NoErr THEN "exited" ELSE p

\* logDNSEvent: the Logger of the newdns server, the proxy and the accept
\* function. It writes a log line, at level error for a non-nil err, and
\* returns: run stays where it is (p).
logDNSEvent(p, err) == p

\* A started listener reads a query and its handler answers it; the error
\* of a handler goes to logDNSEvent.
HandleQuery(t) ==
    /\ task[t] = "serving"
    /\ srv[t].started
    /\ last = NoQuery
    /\ \E q \in QueryNames :
         \E res \in IF CallsResolver(dnsMux, zones, cfg.Finalize, q)
                    THEN LookupResults ELSE {NoLookup} :
           LET out == ServeDNS(dnsMux, zones, cfg.Finalize, cfg.Expire, q, t, res)
           IN  /\ last' = out
               /\ failed' = (failed \/ out.err # NoErr)
               /\ pc' = logDNSEvent(pc, out.err)
    /\ UNCHANGED <<cfgVars, tableVars, rc, waitErr, sigint, ctxDone, errg,
                   reported, task, watcher, srv, tss>>

\* The reply is written and the sets built for the query are dropped.
Reply ==
    /\ last # NoQuery
    /\ last' = NoQuery
    /\ UNCHANGED <<cfgVars, tableVars, pc, rc, waitErr, sigint, ctxDone, errg,
                   reported, task, watcher, srv, tss, failed>>

----------------------------------------------------------------------------
(* Specifications *)

NotRunning ==
    /\ pc = "start"
    /\ rc = -1
    /\ waitErr = NoErr
    /\ sigint = FALSE
    /\ ctxDone = FALSE
    /\ errg = [wg |-> 0, err |-> NoErr]
    /\ reported = <<>>
    /\ task = [t \in Transports |-> "none"]
    /\ watcher = [t \in Transports |-> "none"]
    /\ srv = [t \in Transports |-> NoServer]
    /\ tss = NoSession
    /\ zones = <<>>
    /\ dnsMux = <<>>
    /\ last = NoQuery
    /\ failed = FALSE

\* The configuration of the test machine (nix/vmTest.nix), and no zones
RunZoneMaps ==
    { <<>>,
      [k \in {Rel(<<"d14", "place">>)} |->
         [l \in {Rel(<<"ha">>)} |-> TargetOf(k, l)]] }

\* run starts with a parsed configuration.
Init ==
    /\ \E zm \in RunZoneMaps, finalize \in BOOLEAN, fallback \in {"", "1.1.1.1:53"},
          tsEnable \in BOOLEAN, addr \in {DefaultAddr, ":5353"} :
         cfg = Config(zm, DefaultExpire, finalize, fallback, tsEnable, addr)
    /\ authKey \in {"", "tskey-auth"}
    /\ NotRunning

Next ==
    \/ Setup
    \/ TsUp
    \/ \E t \in Transports : TaskStart(t)
    \/ \E t \in Transports : TaskListen(t)
    \/ \E t \in Transports : TaskServeStop(t)
    \/ \E t \in Transports : TaskServeFail(t)
    \/ \E t \in Transports : WatcherShutdown(t)
    \/ \E t \in Transports : WatcherReturn(t)
    \/ Wait
    \/ Interrupt
    \/ \E t \in Transports : HandleQuery(t)
    \/ Reply

Spec == Init /\ [][Next]_vars

\* The goroutines of the program are scheduled fairly; the interrupt, the
\* queries and the I/O errors of a started listener come from outside and
\* need not happen.
FairSpec ==
    /\ Spec
    /\ WF_vars(Setup)
    /\ WF_vars(TsUp)
    /\ WF_vars(Wait)
    /\ WF_vars(Reply)
    /\ \A t \in Transports :
         /\ WF_vars(TaskStart(t))
         /\ WF_vars(TaskListen(t))
         /\ WF_vars(TaskServeStop(t))
         /\ WF_vars(WatcherShutdown(t))
         /\ WF_vars(WatcherReturn(t))

\* Query dispatch over every configuration of the bounded universe: both
\* plain listeners have started and serve queries.
Serving ==
    /\ pc = "wait"
    /\ rc = -1
    /\ waitErr = NoErr
    /\ sigint = FALSE
    /\ ctxDone = FALSE
    /\ errg = [wg |-> 4, err |-> NoErr]
    /\ reported = <<>>
    /\ task = [t \in Transports |-> "serving"]
    /\ watcher = [t \in Transports |-> "waiting"]
    /\ srv = [t \in Transports |->
                [NoServer EXCEPT !.started = TRUE, !.bound = "local",
                                 !.addr = cfg.Addr]]
    /\ tss = NoSession

\* The server has been serving for a while: where a query can call the
\* resolver, one such query has already failed and been logged.
DispatchInit ==
    /\ \E zm \in ZoneMaps \ {<<>>}, expire \in Expires, finalize \in BOOLEAN,
          fallback \in {"", "1.1.1.1:53"} :
         cfg = Config(zm, expire, finalize, fallback, FALSE, DefaultAddr)
    /\ authKey = ""
    /\ zones \in ZoneSlices(cfg.Zones)
    /\ dnsMux = NewMux(zones, cfg.FallbackDNS)
    /\ last = NoQuery
    /\ failed = \E q \in QueryNames : CallsResolver(dnsMux, zones, cfg.Finalize, q)
    /\ Serving

DispatchNext ==
    \/ \E t \in Transports : HandleQuery(t)
    \/ Reply

DispatchSpec == DispatchInit /\ [][DispatchNext]_vars

----------------------------------------------------------------------------
(* Properties of query dispatch, checked under DispatchSpec *)

\* The fully qualified name made of a configured label and its zone
FullName(l, k) == Fq(l.labels \o k.labels)

\* The zones of the configuration that contain the name q
Containing(q) == { k \in DOMAIN cfg.Zones : IsSuffix(k.labels, q.labels) }

\* C1: a query for the name made of a label L configured in a zone Z (the
\* apex for the empty label) is routed to Z, and unless resolution fails it
\* is answered by exactly one set, named by the normalized concatenation of
\* L and Z (Z itself for the empty label), with the configured expire as TTL.
C1_RoutedAndNamed ==
    \A k \in DOMAIN cfg.Zones : \A l \in DOMAIN cfg.Zones[k] :
        last.q = FullName(l, k) =>
            /\ last.via = "dnsHandler"
            /\ last.zone.Name = Fq(k.labels)
            /\ last.err = NoErr =>
                 /\ Len(last.sets) = 1
                 /\ last.sets[1].Name = FullName(l, k)
                 /\ last.sets[1].TTL = cfg.Expire

\* C2 as stated: a query for a name in no configured zone never reaches a
\* zone handler and is always handed unchanged to the fallback proxy.
C2_AlwaysDelegated ==
    (last # NoQuery /\ Containing(last.q) = {}) =>
        /\ last.sets = <<>>
        /\ last.lookups = <<>>
        /\ last.via = "proxy"
        /\ last.forwarded = last.q

\* C2 amended: a query for a name in no configured zone never reaches a zone
\* handler; when a fallback address is configured it is handed unchanged to
\* the fallback proxy, whose reply is relayed; without one no handler runs
\* and the mux refuses the query.
C2_DelegatedWhenFallbackSet ==
    (last # NoQuery /\ Containing(last.q) = {}) =>
        /\ last.via # "dnsHandler"
        /\ last.sets = <<>>
        /\ last.lookups = <<>>
        /\ cfg.FallbackDNS # "" =>
             /\ last.via = "proxy"
             /\ last.forwarded = last.q
             /\ last.rcode = "relayed"
        /\ cfg.FallbackDNS = "" =>
             /\ last.via = "none"
             /\ last.rcode = "REFUSED"

C2_Witness ==
    /\ last.q = Fq(<<"google", "com">>)
    /\ last.via = "proxy"
    /\ last.forwarded = Fq(<<"google", "com">>)
    /\ Len(zones) = 2

\* C3: when several configured zones contain the query name, the zone whose
\* handler answers is the one with the longest name, whatever the order of
\* the zone slice.
C3_MostSpecificZone ==
    last.via = "dnsHandler" =>
        \A k \in Containing(last.q) :
            Len(k.labels) <= Len(last.zone.Name.labels)

\* C4: when the part of the query name left of the routed zone is not a
\* configured label of that zone, the handler returns no set and no error:
\* no record of a shorter or a longer label, no resolver call, no failure.
C4_NoImplicitWildcard ==
    (last.via = "dnsHandler" /\ last.label \notin DOMAIN last.zone.targets) =>
        /\ last.label.labels \o last.zone.Name.labels = last.q.labels
        /\ last.sets = <<>>
        /\ last.err = NoErr
        /\ last.lookups = <<>>
        /\ last.rcode # "SERVFAIL"

C4_Witness ==
    /\ last.via = "dnsHandler"
    /\ last.q = Fq(<<"x", "ha", "d14", "place">>)
    /\ last.zone.Name = Fq(<<"d14", "place">>)
    /\ last.label = Rel(<<"x", "ha">>)
    /\ DOMAIN last.zone.targets = {Empty, Rel(<<"ha">>)}
    /\ last.sets = <<>>

\* C5: with finalize disabled every set a zone handler returns is a CNAME
\* set whose records are the one normalized target configured for the
\* queried label; no A set is returned and the resolver is not called.
C5_CNAMEMode ==
    (~cfg.Finalize /\ last # NoQuery) =>
        /\ last.lookups = <<>>
        /\ \A i \in 1..Len(last.sets) :
            /\ last.sets[i].Type = "CNAME"
            /\ Len(last.sets[i].Records) = 1
            /\ \E k \in DOMAIN cfg.Zones :
                /\ Fq(k.labels) = last.zone.Name
                /\ last.label \in DOMAIN cfg.Zones[k]
                /\ last.sets[i].Records[1].Address =
                     Fq(cfg.Zones[k][last.label].labels)

C5_Witness ==
    /\ ~cfg.Finalize
    /\ last.q = Fq(<<"ha", "d14", "place">>)
    /\ Len(last.sets) = 1
    /\ last.sets[1].Type = "CNAME"
    /\ last.sets[1].Records =
         << [Address |-> Fq(<<"bridget", "skate-gopher", "ts", "net">>)] >>
    /\ \E k \in DOMAIN cfg.Zones : ~cfg.Zones[k][last.label].fq

\* The address literal of a returned address: dotted for IPv4, else colons
Literal(ip) == [form |-> IF ip.v4 THEN "dotted" ELSE "colon", host |-> ip.host]

\* C6: with finalize enabled a query for a configured label calls the
\* resolver once, on the label's target; on success the answer is one A set
\* holding every returned address in the returned order with the expire as
\* TTL; on failure there is no set, the error carries the resolver's cause
\* and the reply is a server failure.
C6_FinalizeMode ==
    (cfg.Finalize /\ last.via = "dnsHandler"
       /\ last.label \in DOMAIN last.zone.targets) =>
        /\ last.lookups = << last.zone.targets[last.label] >>
        /\ last.res.ok =>
             /\ last.err = NoErr
             /\ Len(last.sets) = 1
             /\ last.sets[1].Type = "A"
             /\ last.sets[1].TTL = cfg.Expire
             /\ Len(last.sets[1].Records) = Len(last.res.ips)
             /\ \A i \in 1..Len(last.res.ips) :
                  last.sets[1].Records[i].Address = Literal(last.res.ips[i])
        /\ ~last.res.ok =>
             /\ last.sets = <<>>
             /\ last.err # NoErr
             /\ last.err.cause = last.res.cause
             /\ last.rcode = "SERVFAIL"

C6_Witness ==
    /\ cfg.Finalize
    /\ last.via = "dnsHandler"
    /\ ~last.res.ok
    /\ last.res.cause = "i/o timeout"
    /\ last.err.cause = "i/o timeout"
    /\ last.rcode = "SERVFAIL"

----------------------------------------------------------------------------
(* Properties of the listeners' life cycle, checked under Spec and FairSpec *)

Finished(t) == task[t] \in {"none", "done"} /\ watcher[t] \in {"none", "done"}

\* A listener task returned the error of a failed bind.
FailedToStart(t) ==
    \E i \in 1..Len(reported) :
        reported[i] \in { TaskErr(t, "listen"),
                          TaskErr(t, "failed to listen on Tailscale") }

\* C7: once the interrupt has cancelled the context, whenever it arrives,
\* both listener tasks and their watchers eventually finish and run returns.
C7_InterruptLeadsToReturn ==
    sigint ~> (pc \in {"returned", "exited"} /\ \A t \in Transports : Finished(t))

\* C8: after a transport has failed to start, the other one is never left
\* serving with nothing to stop it: a listener that serves then still has
\* its shutdown watcher waiting to stop it.
C8_NoListenerLeftServing ==
    \A t, u \in Transports :
        (FailedToStart(u) /\ task[t] = "serving" /\ srv[t].started) =>
            watcher[t] = "waiting"

\* C9: run has not returned from errg.Wait while a listener task or a
\* shutdown watcher is running; when tasks reported errors, the one error
\* run gets from Wait is the first reported and the exit code is non-zero.
C9_WaitAwaitsEveryTask ==
    pc = "returned" =>
        /\ \A t \in Transports : Finished(t)
        /\ reported # <<>> => (waitErr = reported[1] /\ rc # 0)
        /\ reported = <<>> => waitErr = NoErr

C9_Witness ==
    /\ pc = "returned"
    /\ Len(reported) = 2
    /\ reported[1] # reported[2]
    /\ waitErr = reported[1]
    /\ \E t \in Transports : watcher[t] = "done"

\* C10: run ends with a non-zero code exactly when a listener task reported
\* an error or startup failed before any listener task was started; listeners
\* stopped by the cancellation report no error and run returns 0.
C10_ExitCode ==
    pc \in {"returned", "exited"} =>
        (rc # 0 <=> (reported # <<>> \/ \A t \in Transports : task[t] = "none"))

C10_Witness ==
    /\ pc = "returned"
    /\ rc = 0
    /\ sigint
    /\ \A t \in Transports :
        /\ task[t] = "done"
        /\ watcher[t] = "done"
        /\ srv[t].bound = "local"
        /\ srv[t].shutdown = "closed"

----------------------------------------------------------------------------
(* Properties of startup, checked under Spec *)

NotStarted(t) ==
    /\ task[t] = "none"
    /\ watcher[t] = "none"
    /\ srv[t] = NoServer

\* C11: when the configuration has no zones, whatever its other values, the
\* process leaves startup by exiting with a non-zero code: no listener task
\* or watcher is ever started, no server binds and no Tailscale session is
\* made.
C11_NoZonesFailsStartup ==
    (DOMAIN cfg.Zones = {} /\ pc # "start") =>
        /\ pc = "exited"
        /\ rc # 0
        /\ rc # -1
        /\ \A t \in Transports : NotStarted(t)
        /\ tss = NoSession
        /\ errg.wg = 0

C11_Witness ==
    /\ DOMAIN cfg.Zones = {}
    /\ pc = "exited"
    /\ rc = 1
    /\ cfg.Tailscale.Enable
    /\ authKey # ""
    /\ cfg.Addr = DefaultAddr
    /\ cfg.FallbackDNS # ""
    /\ sigint

\* C12: with Tailscale enabled, when TS_AUTHKEY is empty or the listen
\* address is not ":53", startup ends with a non-zero code (run returns 1
\* when there are zones) and neither a Tailscale session nor a listener task,
\* watcher or server has been made.
C12_TailscaleChecksFailStartup ==
    (/\ cfg.Tailscale.Enable
     /\ authKey = "" \/ cfg.Addr # DefaultAddr
     /\ pc # "start") =>
        /\ pc \in {"returned", "exited"}
        /\ pc = "returned" <=> DOMAIN cfg.Zones # {}
        /\ rc = 1
        /\ tss = NoSession
        /\ \A t \in Transports : NotStarted(t)
        /\ errg = [wg |-> 0, err |-> NoErr]
        /\ reported = <<>>

C12_Witness ==
    /\ cfg.Tailscale.Enable
    /\ authKey # ""
    /\ cfg.Addr = ":5353"
    /\ Len(zones) = 1
    /\ pc = "returned"
    /\ rc = 1
    /\ tss.state = "none"
    /\ \A t \in Transports : task[t] = "none"

\* Whether ip is the first IPv4 address of the list ips
IsFirstV4(ips, ip) ==
    \E i \in 1..Len(ips) :
        /\ ips[i] = ip
        /\ ip.fam = 4
        /\ \A j \in 1..(i - 1) : ips[j].fam # 4

\* C13: with Tailscale enabled, a listener task runs only while the session
\* is up, so nothing binds before tss.Up has returned; every server made is
\* bound through the session, has no local listen address, and its socket is
\* port 53 of the first IPv4 address of the session's address list; when the
\* session failed to come up or its list has no IPv4 address, run has
\* returned 1 and no listener was started.
C13_BindsThroughSession ==
    cfg.Tailscale.Enable =>
        /\ \A t \in Transports :
             /\ task[t] \in {"spawned", "listen", "serving"} => tss.state = "up"
             /\ ~NotStarted(t) => tss.state \in {"up", "closed"}
             /\ srv[t] # NoServer =>
                  /\ srv[t].bound = "tsnet"
                  /\ srv[t].addr = ""
                  /\ srv[t].conn.port = 53
                  /\ IsFirstV4(tss.ips, srv[t].conn.ip)
        /\ pc \in {"start", "tsUp"} => \A t \in Transports : NotStarted(t)
        /\ (pc \notin {"start", "tsUp"}
              /\ \A i \in 1..Len(tss.ips) : tss.ips[i].fam # 4) =>
             /\ pc \in {"returned", "exited"}
             /\ rc = 1
             /\ \A t \in Transports : NotStarted(t)

C13_Witness ==
    /\ cfg.Tailscale.Enable
    /\ tss.state = "up"
    /\ tss.ips[1].fam = 6
    /\ \A t \in Transports :
        /\ task[t] = "serving"
        /\ srv[t].started
        /\ srv[t].bound = "tsnet"
        /\ srv[t].conn = [ip |-> TsAddr(4, 2), port |-> 53]

----------------------------------------------------------------------------
(* Further properties of query dispatch, checked under DispatchSpec *)

\* C14: when no fallback address is configured, a query for a name in no
\* configured zone is not forwarded, reaches neither the newdns server nor a
\* zone handler or the resolver, and is answered: the mux replies with a
\* failure code (refused or server failure) and no record.
C14_UnmatchedRefusedWithoutFallback ==
    (cfg.FallbackDNS = "" /\ last # NoQuery /\ Containing(last.q) = {}) =>
        /\ last.forwarded = Empty
        /\ last.via \notin {"proxy", "dnsHandler"}
        /\ last.zone = NoZone
        /\ last.sets = <<>>
        /\ last.lookups = <<>>
        /\ last.rcode \in {"REFUSED", "SERVFAIL"}

C14_Witness ==
    /\ cfg.FallbackDNS = ""
    /\ last.q = Fq(<<"google", "com">>)
    /\ last.net = "tcp"
    /\ last.via = "none"
    /\ last.rcode = "REFUSED"
    /\ Len(zones) = 2

\* C16: with finalize disabled the answer to a query depends on its name
\* and the configuration only: whatever slice run built from the
\* configuration and whichever transport the query came over, the sets, the
\* reply code and what was forwarded are the same.
C16_AnswerFromNameAndConfig ==
    (~cfg.Finalize /\ last # NoQuery) =>
        \A zs \in ZoneSlices(cfg.Zones) : \A net \in Transports :
            LET o == ServeDNS(NewMux(zs, cfg.FallbackDNS), zs, cfg.Finalize,
                              cfg.Expire, last.q, net, NoLookup)
            IN  /\ o.sets = last.sets
                /\ o.err = last.err
                /\ o.rcode = last.rcode
                /\ o.forwarded = last.forwarded

\* C19: every set a zone handler returns holds at least one record: exactly
\* one, a CNAME, with finalize disabled, and one or more A records with
\* finalize enabled, also when the resolver succeeds with no address.
C19_AnswersCarryValues ==
    \A i \in 1..Len(last.sets) :
        /\ Len(last.sets[i].Records) >= 1
        /\ ~cfg.Finalize =>
             (last.sets[i].Type = "CNAME" /\ Len(last.sets[i].Records) = 1)
        /\ cfg.Finalize => last.sets[i].Type = "A"

\* C20: a query for a name contained in a configured zone, the root zone
\* included, is answered by the newdns server from a zone that contains it
\* and is never forwarded to the fallback, whether or not its label is
\* configured and whether or not a fallback address is set.
C20_ZoneNamesAnsweredLocally ==
    (last # NoQuery /\ Containing(last.q) # {}) =>
        /\ last.via = "dnsHandler"
        /\ last.forwarded = Empty
        /\ \E k \in Containing(last.q) : last.zone.Name = Fq(k.labels)

\* C21: with finalize enabled every record of an A set a zone handler
\* returns is an IPv4 address in dotted form: an address of the resolver that
\* is not IPv4 is not put into an A set.
C21_AValuesAreIPv4 ==
    cfg.Finalize =>
        \A i \in 1..Len(last.sets) :
            last.sets[i].Type = "A" =>
                \A j \in 1..Len(last.sets[i].Records) :
                    last.sets[i].Records[j].Address.form = "dotted"

----------------------------------------------------------------------------
(* Properties of the running server, checked under Spec *)

\* The state of run, of the errgroup, of the listeners and of the session
lifeVars ==
    <<pc, rc, waitErr, sigint, ctxDone, errg, reported, task, watcher, srv, tss>>

\* C15: a query whose handler fails (the resolver fails in finalize mode) is
\* answered with a server failure and changes nothing else: run, the
\* errgroup and its error, the listeners, their watchers and servers, the
\* session and the tables stay as they were; and a query answered after a
\* failure gets the answer the tables built from the configuration give for
\* its name and resolver result, as one answered before any failure does.
C15_QueryFailureIsLocal ==
    [][(last = NoQuery /\ last' # NoQuery) =>
         /\ last'.err # NoErr =>
              /\ failed'
              /\ last'.rcode = "SERVFAIL"
              /\ last'.sets = <<>>
              /\ UNCHANGED <<lifeVars, tableVars, cfgVars>>
              /\ \A t \in Transports :
                   (task[t] = "serving" /\ srv[t].started) =>
                       (task'[t] = "serving" /\ srv'[t].started)
         /\ \E zs \in ZoneSlices(cfg.Zones) :
              /\ zones = zs
              /\ last' = ServeDNS(NewMux(zs, cfg.FallbackDNS), zs, cfg.Finalize,
                                  cfg.Expire, last'.q, last'.net, last'.res)
       ]_vars

C15_Witness ==
    /\ failed
    /\ last.via = "dnsHandler"
    /\ last.res.ok
    /\ Len(last.res.ips) = 2
    /\ last.rcode = "answered"
    /\ Len(last.sets) = 1
    /\ \A t \in Transports : task[t] = "serving" /\ srv[t].started
    /\ pc = "wait"
    /\ errg.err = NoErr
    /\ reported = <<>>
    /\ ~ctxDone

\* The zone slice holds one zone per entry of cfg.Zones, with every label's
\* normalized target, and the mux has a handler for every zone name and for
\* the fallback.
TableBuilt ==
    /\ Len(zones) = Cardinality(DOMAIN cfg.Zones)
    /\ \A k \in DOMAIN cfg.Zones :
         /\ Fq(k.labels) \in DOMAIN dnsMux
         /\ \E i \in 1..Len(zones) :
              /\ zones[i].Name = Fq(k.labels)
              /\ DOMAIN zones[i].targets = DOMAIN cfg.Zones[k]
              /\ \A l \in DOMAIN cfg.Zones[k] :
                   zones[i].targets[l] = Fq(cfg.Zones[k][l].labels)
    /\ cfg.FallbackDNS # "" => Root \in DOMAIN dnsMux

\* C17: the zone slice and the mux are complete when the first listener task
\* is started, and no step taken after run has built them changes them: not
\* a query, a reply, a listener, a watcher, the interrupt or run's return.
C17_TablesBuiltThenFrozen ==
    [][/\ pc # "start" => UNCHANGED <<zones, dnsMux>>
       /\ (\E t \in Transports : task'[t] # "none") => TableBuilt'
       /\ (last = NoQuery /\ last' # NoQuery) => (TableBuilt /\ UNCHANGED tableVars)
      ]_vars

C17_Witness ==
    /\ TableBuilt
    /\ Len(zones) = 1
    /\ DOMAIN dnsMux = {Fq(<<"d14", "place">>), Root}
    /\ failed
    /\ last.via = "proxy"
    /\ \A t \in Transports : task[t] = "done"
    /\ pc = "returned"

\* C18: a Tailscale session, once made, is closed exactly once when run
\* returns, however it returns (tss.Up failed, no IPv4 address, a listener
\* error, the interrupt); it is never closed while run is still going, and
\* when it is closed every listener task and watcher has finished. Without
\* Tailscale, or when startup fails before the session is made, there is
\* nothing to close.
C18_SessionClosedOnceAtReturn ==
    /\ tss.closes \in {0, 1}
    /\ tss.closes = 1 <=> tss.state = "closed"
    /\ tss.state = "closed" =>
         /\ pc = "returned"
         /\ \A t \in Transports : Finished(t)
    /\ (pc = "returned" /\ tss.state # "none") => tss.state = "closed"
    /\ (pc \in {"tsUp", "wait", "returned"} /\ cfg.Tailscale.Enable
          /\ authKey # "" /\ cfg.Addr = DefaultAddr) => tss.state # "none"
    /\ ~cfg.Tailscale.Enable => tss = NoSession

C18_Witness ==
    /\ pc = "returned"
    /\ tss.state = "closed"
    /\ tss.closes = 1
    /\ Len(tss.ips) = 3
    /\ Len(reported) = 1
    /\ reported[1] = TaskErr("udp", "serve")
    /\ rc = 1
    /\ ~sigint
    /\ srv["tcp"].bound = "tsnet"
    /\ srv["tcp"].shutdown = "closed"
    /\ \A t \in Transports : task[t] = "done" /\ watcher[t] = "done"

====
